---- MODULE Spec2Model ----
(***************************************************************************)
(* AIMP4 playlist (.aimppl4) to .m3u converter.                            *)
(*                                                                         *)
(* A Python str is a sequence of one-character strings.  An Optional[str]  *)
(* is a sequence of at most one str: None is << >>, a present value s is   *)
(* << s >>.  pathlib.Path is pathlib.WindowsPath and os.path is ntpath:    *)
(* the program appends and substitutes "\\" by hand and is written for the *)
(* Windows host the playlists come from.                                   *)
(***************************************************************************)
EXTENDS Naturals, Sequences, FiniteSets

\* ------------------------------------------------------------------ str

BS == "\\"
Seps == {"\\", "/"}

None == << >>
Some(s) == << s >>

\* str.startswith / str.endswith
StartsWith(s, p) == Len(s) >= Len(p) /\ SubSeq(s, 1, Len(p)) = p
EndsWith(s, p) == Len(s) >= Len(p) /\ SubSeq(s, Len(s) - Len(p) + 1, Len(s)) = p

\* sub in s
Contains(s, sub) ==
    \E i \in 1..(Len(s) - Len(sub) + 1) : SubSeq(s, i, i + Len(sub) - 1) = sub

\* s.replace(old, new): every non-overlapping occurrence, left to right
\* (old is never empty here: both call sites pass a string ending in "\\").
RECURSIVE Replace(_, _, _)
Replace(s, old, new) ==
    IF Len(s) < Len(old) THEN s
    ELSE IF SubSeq(s, 1, Len(old)) = old
         THEN new \o Replace(SubSeq(s, Len(old) + 1, Len(s)), old, new)
         ELSE << s[1] >> \o Replace(Tail(s), old, new)

\* s.split(c) for the one-character separators in cs
RECURSIVE Split(_, _)
Split(s, cs) ==
    IF \A i \in 1..Len(s) : s[i] \notin cs THEN << s >>
    ELSE LET i == CHOOSE k \in 1..Len(s) :
                      s[k] \in cs /\ \A j \in 1..(k - 1) : s[j] \notin cs
         IN << SubSeq(s, 1, i - 1) >> \o Split(SubSeq(s, i + 1, Len(s)), cs)

\* sep.join(parts)
RECURSIVE Join(_, _)
Join(parts, sep) ==
    IF parts = << >> THEN << >>
    ELSE IF Len(parts) = 1 THEN parts[1]
    ELSE parts[1] \o sep \o Join(Tail(parts), sep)

\* [x for x in xs if keep]
RECURSIVE DropEmptyAndDot(_)
DropEmptyAndDot(xs) ==
    IF xs = << >> THEN << >>
    ELSE IF xs[1] = << >> \/ xs[1] = << "." >> THEN DropEmptyAndDot(Tail(xs))
    ELSE << xs[1] >> \o DropEmptyAndDot(Tail(xs))

\* -------------------------------------------------------------- pathlib

\* The drive of a Windows path: a letter and a colon.
Drive(s) == IF Len(s) >= 2 /\ s[2] = ":" /\ s[1] \notin Seps THEN SubSeq(s, 1, 2) ELSE << >>

\* The root of a Windows path: the separator that follows the drive.
Root(s) ==
    LET rest == SubSeq(s, Len(Drive(s)) + 1, Len(s))
    IN IF rest # << >> /\ rest[1] \in Seps THEN << BS >> ELSE << >>

\* Path(s).parts: the anchor (drive and root) when there is one, then the
\* components between separators; empty and "." components are dropped,
\* ".." is kept.
Parts(s) ==
    LET anchor == Drive(s) \o Root(s)
        rest == SubSeq(s, Len(Drive(s)) + 1, Len(s))
        comps == DropEmptyAndDot(Split(rest, Seps))
    IN (IF anchor = << >> THEN << >> ELSE << anchor >>) \o comps

IsAnchor(part) == part # << >> /\ part[Len(part)] \in (Seps \cup {":"})

\* os.path.join(path, *paths) for paths that carry no drive and no root
\* (every part after the first is a plain component of Path.parts).
RECURSIVE NtJoin(_)
NtJoin(parts) ==
    IF Len(parts) = 1 THEN parts[1]
    ELSE LET head == NtJoin(SubSeq(parts, 1, Len(parts) - 1))
             last == parts[Len(parts)]
         IN IF head # << >> /\ head[Len(head)] \notin (Seps \cup {":"})
            THEN head \o << BS >> \o last
            ELSE head \o last

\* str(Path(...)) of a parts tuple
PathStr(parts) == IF parts = << >> THEN << "." >> ELSE NtJoin(parts)

\* Path(s).name
PathName(s) ==
    LET ps == Parts(s)
    IN IF ps = << >> \/ (Len(ps) = 1 /\ IsAnchor(ps[1])) THEN << >> ELSE ps[Len(ps)]

\* ------------------------------------------------------- the file system

\* The directory the program runs in, and the files on disk, each as its
\* drive followed by its components.
Cwd == << <<"C", ":">>, <<"w">> >>

Files ==
    { << <<"C", ":">>, <<"m">>, <<"a">> >>,
      << <<"C", ":">>, <<"m">>, <<"s">>, <<"b">> >>,
      << <<"C", ":">>, <<"m">>, <<"t">>, <<"b">> >>,
      << <<"C", ":">>, <<"w">>, <<"m">>, <<"a">> >>,
      << <<"C", ":">>, <<"w">>, <<"m">>, <<"m">>, <<"c">> >>,
      << <<"D", ":">>, <<"n">>, <<"a">> >> }

\* ".." components resolved against the directory they follow
RECURSIVE ResolveDots(_, _)
ResolveDots(stack, comps) ==
    IF comps = << >> THEN stack
    ELSE IF comps[1] = << ".", "." >>
         THEN ResolveDots(IF Len(stack) > 1 THEN SubSeq(stack, 1, Len(stack) - 1) ELSE stack,
                          Tail(comps))
         ELSE ResolveDots(Append(stack, comps[1]), Tail(comps))

\* The directory os.walk(top) starts in: top itself when it names a drive,
\* else top taken from the current directory.
AbsDir(top) ==
    LET rest == SubSeq(top, Len(Drive(top)) + 1, Len(top))
        comps == DropEmptyAndDot(Split(rest, Seps))
    IN IF Drive(top) # << >> THEN ResolveDots(<< Drive(top) >>, comps)
       ELSE IF Root(top) # << >> THEN ResolveDots(<< Cwd[1] >>, comps)
       ELSE ResolveDots(Cwd, comps)

IsPrefix(p, s) == Len(p) <= Len(s) /\ SubSeq(s, 1, Len(p)) = p

\* The files named filename below top
Matches(top, filename) ==
    { f \in Files : /\ IsPrefix(AbsDir(top), f)
                    /\ Len(f) > Len(AbsDir(top))
                    /\ f[Len(f)] = filename }

\* os.walk is top-down: a directory's own files are seen before anything
\* below it, and sibling directories come in the order the file system
\* lists them.  A match can be the first one found unless a directory
\* above its own holds a match too.
FirstMatches(top, filename) ==
    { f \in Matches(top, filename) :
        \A g \in Matches(top, filename) :
            ~ (Len(g) < Len(f) /\ IsPrefix(SubSeq(g, 1, Len(g) - 1), f)) }

\* str(Path(dirpath).joinpath(filename)) for the match f: dirpath is top
\* followed by the directories walked down to f.
FoundPath(top, f) ==
    PathStr(Parts(top) \o SubSeq(f, Len(AbsDir(top)) + 1, Len(f)))

\* ------------------------------------------------------------ playlists

PlaylistSong(path, song_name, artist, album) ==
    [path |-> path, song_name |-> song_name, artist |-> artist, album |-> album]

Paths(sgs) == [i \in DOMAIN sgs |-> sgs[i].path]

Min(S) == CHOOSE m \in S : \A n \in S : m <= n

Returned(v) == [err |-> "None", val |-> v]
Raised(e) == [err |-> e, val |-> << >>]

\* The parts on which every path agrees at an index below min_parts, in
\* index order; an index on which two paths differ adds nothing and the
\* scan goes on.
RECURSIVE CommonParts(_, _, _)
CommonParts(song_paths, i, min_parts) ==
    IF i > min_parts THEN << >>
    ELSE LET same_part == \A j \in 2..Len(song_paths) :
                              song_paths[j][i] = song_paths[j - 1][i]
         IN (IF same_part THEN << song_paths[Len(song_paths)][i] >> ELSE << >>)
            \o CommonParts(song_paths, i + 1, min_parts)

\* M3uPlaylist.find_common_path
find_common_path(sgs) ==
    LET song_paths == [i \in DOMAIN sgs |-> Parts(sgs[i].path)]
    IN IF sgs = << >> THEN Raised("ValueError")
       ELSE LET min_parts == Min({ Len(song_paths[i]) : i \in DOMAIN sgs })
                common_paths == CommonParts(song_paths, 1, min_parts)
            IN IF common_paths = << >> THEN Raised("TypeError")
               ELSE Returned(NtJoin(common_paths) \o << BS >>)

\* Mutant: the common path is taken out once only (replace with count 1).
RelativePathOnce(path, common) ==
    LET p == Replace(path, << ".", ".", BS >>, << >>)
    IN IF Contains(p, common)
       THEN LET i == CHOOSE k \in 1..Len(p) :
                         /\ SubSeq(p, k, k + Len(common) - 1) = common
                         /\ \A j \in 1..(k - 1) : SubSeq(p, j, j + Len(common) - 1) # common
            IN SubSeq(p, 1, i - 1) \o SubSeq(p, i + Len(common), Len(p))
       ELSE p

\* The body of convert_to_relative's loop
RelativePath(path, common) ==
    Replace(Replace(path, << ".", ".", BS >>, << >>), common, << >>)

ConvertedSongs(sgs, common) ==
    [i \in DOMAIN sgs |-> [sgs[i] EXCEPT !.path = RelativePath(@, common)]]

\* M3uPlaylist.paths_to_posix
PosixSongs(sgs) ==
    [i \in DOMAIN sgs |-> [sgs[i] EXCEPT !.path = Replace(@, << BS >>, << "/" >>)]]

\* Mutant: every path is followed by a newline, the last one too.
StrNewlineEach(sgs) == Join(Paths(sgs) \o << << >> >>, << "\n" >>)

\* M3uPlaylist.__str__
Str(sgs) == Join(Paths(sgs), << "\n" >>)

\* ---------------------------------------------------------------- input

MaxSongs == 2
MaxCalls == 3

SUMMARY == << "S", "U", "M", "M", "A", "R", "Y" >>
CONTENT == << "C", "O", "N", "T", "E", "N", "T" >>
NameKey == << "N", "a", "m", "e" >>

\* Lines of a playlist file: section headers, summary lines, root-path
\* lines and song records.
SectionLines ==
    { << "#" >> \o SUMMARY \o << "#" >>,
      << "#" >> \o CONTENT \o << "#" >> }

SummaryLines ==
    { NameKey \o << "=", "p" >>,
      NameKey \o << "=", "q" >>,
      << >>,
      << "k", "=", "v", "=", "w" >>,
      NameKey \o << "=" >> \o CONTENT }

RootLines ==
    { << "-", "C", ":", BS, "m", BS >>,
      << "-", "m", BS >>,
      << "-", ".", ".", BS, "m", BS, "t", BS >>,
      << "-", "D", ":", BS, "n", BS >>,
      << "-", "D", ":", BS >> \o CONTENT \o << BS >> }

SongLines ==
    { << "C", ":", BS, "o", BS, "a", "|", "1", "|", "r", "|", "l" >>,
      << "b", "|", "2", "|", "r", "|", "l" >>,
      << "c", "|", "3", "|", "r", "|", "l", "|", "0" >>,
      << "z", "|", "4", "|", "r", "|", "l" >>,
      << "b", "|", "2" >> }

LineSet == SectionLines \cup SummaryLines \cup RootLines \cup SongLines

\* The playlist argument of the command line
PlaylistArgs ==
    { << "p", ".", "a", "i", "m", "p", "p", "l", "4" >>,
      << "p", ".", "m", "3", "u" >> }

\* ---------------------------------------------------------------- state

VARIABLES
    pc,                 \* where main is
    exc,                \* the exception that ended the run, and where it was raised
    line,               \* from_lines: the line of the current iteration
    section,            \* from_lines: section
    current_root_path,  \* from_lines: current_root_path
    summary,            \* from_lines: summary
    songs,              \* from_lines: songs, then M3uPlaylist.songs
    search_path,        \* find_song_path: the search_path of the last call
    seen,               \* the song records looked up so far: root, filename, title
    filename,           \* M3uPlaylist.filename
    common_path,        \* M3uPlaylist.common_path
    final_path,         \* main: final_path
    written,            \* what main wrote to final_path
    op,                 \* the M3uPlaylist method called last
    ret,                \* what it returned
    prev,               \* the song paths before it
    calls,              \* the calls made on the M3uPlaylist
    sanitized           \* the sanitize_paths calls among them

vars == << pc, exc, line, section, current_root_path, summary, songs, search_path,
           seen, filename, common_path, final_path, written, op, ret, prev, calls,
           sanitized >>

NoExc == [type |-> "None", raised_in |-> "None"]
Exc(t, f) == [type |-> t, raised_in |-> f]

NoCall == << >>
CalledWith(arg) == << arg >>

parse_vars == << line, section, current_root_path, summary, songs, search_path, seen >>
m3u_vars == << filename, common_path >>
api_vars == << op, ret, prev, calls, sanitized >>
parse_vars_but_songs == << line, section, current_root_path, summary, search_path, seen >>

Init ==
    /\ pc = "main"
    /\ exc = NoExc
    /\ line = None
    /\ section = "None"
    /\ current_root_path = None
    /\ summary = << >>
    /\ songs = << >>
    /\ search_path = NoCall
    /\ seen = << >>
    /\ filename = None
    /\ common_path = None
    /\ final_path = None
    /\ written = None
    /\ op = "None"
    /\ ret = None
    /\ prev = << >>
    /\ calls = 0
    /\ sanitized = 0

\* ----------------------------------------------------------------- main

\* main, to the extension check
CheckExtension ==
    /\ pc = "main"
    /\ \E source_playlist_path \in PlaylistArgs :
          pc' = IF EndsWith(source_playlist_path,
                            << ".", "a", "i", "m", "p", "p", "l", "4" >>)
                THEN "from_filename" ELSE "return"
    /\ UNCHANGED << exc, parse_vars, m3u_vars, final_path, written, api_vars >>

\* AimpPlaylist.from_filename, to the call of from_lines
from_filename ==
    /\ pc = "from_filename"
    /\ \E exists \in BOOLEAN :
          IF exists
          THEN pc' = "from_lines" /\ exc' = exc
          ELSE pc' = "raised" /\ exc' = Exc("FileNotFoundError", "from_filename")
    /\ UNCHANGED << parse_vars, m3u_vars, final_path, written, api_vars >>

\* Mutant: a key that is already there keeps its value.
SetItemKeepsFirst(d, key, value) ==
    [k \in DOMAIN d \cup {key} |-> IF k \in DOMAIN d THEN d[k] ELSE value]

\* summary[key] = value
SetItem(d, key, value) ==
    [k \in DOMAIN d \cup {key} |-> IF k = key THEN value ELSE d[k]]

\* line_parts[1:4]
Slice1to4(line_parts) ==
    SubSeq(line_parts, 2, IF Len(line_parts) < 4 THEN Len(line_parts) ELSE 4)

\* Mutant: the leading "-" stays in the root path.
RootOfWhole(l) == l

\* line[1:]
RootOf(l) == Tail(l)

\* Mutant: a file that is not found resolves to its name under the root
\* instead of raising.
find_song_path_or_nominal(root, name) ==
    IF root = None THEN { Raised("TypeError") }
    ELSE IF FirstMatches(root[1], name) = {}
         THEN { Returned(PathStr(Parts(root[1]) \o << name >>)) }
    ELSE { Returned(FoundPath(root[1], f)) : f \in FirstMatches(root[1], name) }

\* AimpPlaylist.find_song_path
find_song_path(root, name) ==
    IF root = None THEN { Raised("TypeError") }
    ELSE IF FirstMatches(root[1], name) = {} THEN { Raised("FileNotFoundError") }
    ELSE { Returned(FoundPath(root[1], f)) : f \in FirstMatches(root[1], name) }

\* One iteration of from_lines' loop
from_lines_line ==
    /\ pc = "from_lines"
    /\ \E l \in LineSet :
        /\ line' = Some(l)
        /\ IF Contains(l, SUMMARY)
           THEN /\ section' = "summary"
                /\ UNCHANGED << pc, exc, current_root_path, summary, songs, search_path, seen >>
           ELSE IF Contains(l, CONTENT)
           THEN /\ section' = "content"
                /\ UNCHANGED << pc, exc, current_root_path, summary, songs, search_path, seen >>
           ELSE IF section = "None"
           THEN UNCHANGED << pc, exc, section, current_root_path, summary, songs,
                             search_path, seen >>
           ELSE IF section = "summary"
           THEN /\ summary' = IF Len(Split(l, {"="})) = 2
                              THEN SetItem(summary, Split(l, {"="})[1], Split(l, {"="})[2])
                              ELSE summary
                /\ UNCHANGED << pc, exc, section, current_root_path, songs, search_path, seen >>
           ELSE IF StartsWith(l, << "-" >>)
           THEN /\ current_root_path' = Some(RootOf(l))
                /\ UNCHANGED << pc, exc, section, summary, songs, search_path, seen >>
           ELSE LET line_parts == Split(l, {"|"})
                    fields == Slice1to4(line_parts)
                    name == PathName(line_parts[1])
                IN IF Len(fields) # 3
                   THEN /\ pc' = "raised"
                        /\ exc' = Exc("ValueError", "from_lines")
                        /\ UNCHANGED << section, current_root_path, summary, songs,
                                        search_path, seen >>
                   ELSE /\ search_path' = CalledWith(current_root_path)
                        /\ seen' = Append(seen, [root |-> current_root_path,
                                                 name |-> name, title |-> fields[1]])
                        /\ \E r \in find_song_path(current_root_path, name) :
                              IF r.err # "None"
                              THEN /\ pc' = "raised"
                                   /\ exc' = Exc(r.err, "find_song_path")
                                   /\ songs' = songs
                              ELSE /\ Len(songs) < MaxSongs
                                   /\ songs' = Append(songs,
                                          PlaylistSong(r.val, fields[1], fields[2], fields[3]))
                                   /\ UNCHANGED << pc, exc >>
                        /\ UNCHANGED << section, current_root_path, summary >>
    /\ UNCHANGED << m3u_vars, final_path, written, api_vars >>

\* The end of from_lines' loop: return cls(summary, songs).  The locals of
\* from_lines and of find_song_path end with the call.
from_lines_return ==
    /\ pc = "from_lines"
    /\ pc' = "to_m3u"
    /\ line' = None
    /\ section' = "None"
    /\ current_root_path' = None
    /\ search_path' = NoCall
    /\ UNCHANGED << exc, summary, songs, seen, m3u_vars, final_path, written, api_vars >>

\* AimpPlaylist.to_m3u and M3uPlaylist.__init__
to_m3u ==
    /\ pc = "to_m3u"
    /\ IF NameKey \in DOMAIN summary
       THEN /\ filename' = Some(summary[NameKey] \o << ".", "m", "3", "u" >>)
            /\ pc' = "convert_to_relative"
            /\ exc' = exc
       ELSE /\ pc' = "raised"
            /\ exc' = Exc("KeyError", "to_m3u")
            /\ filename' = filename
    /\ UNCHANGED << parse_vars, common_path, final_path, written, api_vars >>

\* sanitize_paths, first half: M3uPlaylist.convert_to_relative
convert_to_relative ==
    /\ pc = "convert_to_relative"
    /\ LET r == find_common_path(songs)
       IN IF r.err # "None"
          THEN /\ pc' = "raised"
               /\ exc' = Exc(r.err, "find_common_path")
               /\ UNCHANGED << songs, common_path >>
          ELSE /\ common_path' = Some(r.val)
               /\ songs' = ConvertedSongs(songs, r.val)
               /\ pc' = "paths_to_posix"
               /\ exc' = exc
    /\ UNCHANGED << line, section, current_root_path, summary, search_path, seen,
                    filename, final_path, written, api_vars >>

\* sanitize_paths, second half: M3uPlaylist.paths_to_posix
paths_to_posix ==
    /\ pc = "paths_to_posix"
    /\ songs' = PosixSongs(songs)
    /\ pc' = "makedirs"
    /\ UNCHANGED << exc, line, section, current_root_path, summary, search_path, seen,
                    m3u_vars, final_path, written, api_vars >>

Playlists == << "P", "l", "a", "y", "l", "i", "s", "t", "s" >>

\* main, from common_path to os.makedirs
MakeDirs ==
    /\ pc = "makedirs"
    /\ \E output \in { None, Some(<< "o" >>) }, made \in BOOLEAN :
          LET common == PathStr(Parts(common_path[1]))
              output_dir == IF output = None
                            THEN PathStr(Parts(common \o << BS >> \o Playlists))
                            ELSE PathStr(Parts(output[1]))
          IN /\ final_path' = Some(PathStr(Parts(output_dir) \o << filename[1] >>))
             /\ IF made
                THEN pc' = "input" /\ exc' = exc
                ELSE pc' = "raised" /\ exc' = Exc("OSError", "makedirs")
    /\ UNCHANGED << parse_vars, m3u_vars, written, api_vars >>

\* main, the confirmation prompt
Confirm ==
    /\ pc = "input"
    /\ \E answer \in { << "y" >>, << >>, << "n" >> } :
          pc' = IF answer \in { << "y" >>, << >> } THEN "write" ELSE "return"
    /\ UNCHANGED << exc, parse_vars, m3u_vars, final_path, written, api_vars >>

\* main, f.write(str(playlist))
Write ==
    /\ pc = "write"
    /\ \E opened \in BOOLEAN :
          IF opened
          THEN pc' = "done" /\ written' = Some(Str(songs)) /\ exc' = exc
          ELSE pc' = "raised" /\ exc' = Exc("IOError", "main") /\ written' = written
    /\ UNCHANGED << parse_vars, m3u_vars, final_path, api_vars >>

Next ==
    \/ CheckExtension
    \/ from_filename
    \/ from_lines_line
    \/ from_lines_return
    \/ to_m3u
    \/ convert_to_relative
    \/ paths_to_posix
    \/ MakeDirs
    \/ Confirm
    \/ Write

Spec == Init /\ [][Next]_vars

\* ------------------------------------------- M3uPlaylist, method by method

\* The root paths and the songs a playlist file over LineSet can yield
Roots == { RootOf(l) : l \in { x \in RootLines : ~ Contains(x, CONTENT) } }

ResolvedSongs ==
    UNION { { PlaylistSong(r.val, Slice1to4(Split(l, {"|"}))[1],
                           Slice1to4(Split(l, {"|"}))[2], Slice1to4(Split(l, {"|"}))[3]) :
              r \in { x \in find_song_path(Some(root), PathName(Split(l, {"|"})[1])) :
                        x.err = "None" } } :
            root \in Roots,
            l \in { x \in SongLines : Len(Slice1to4(Split(x, {"|"}))) = 3 } }

\* An M3uPlaylist as to_m3u builds it, before any method is called
InitApi ==
    /\ pc = "M3uPlaylist"
    /\ exc = NoExc
    /\ line = None
    /\ section = "None"
    /\ current_root_path = None
    /\ summary = SetItem(<< >>, NameKey, << "p" >>)
    /\ songs \in UNION { [1..n -> ResolvedSongs] : n \in 0..MaxSongs }
    /\ search_path = NoCall
    /\ seen = << >>
    /\ filename = Some(<< "p", ".", "m", "3", "u" >>)
    /\ common_path = None
    /\ final_path = None
    /\ written = None
    /\ op = "None"
    /\ ret = None
    /\ prev = << >>
    /\ calls = 0
    /\ sanitized = 0

\* A caller may call a method while no call has raised
Callable == pc = "M3uPlaylist" /\ exc = NoExc /\ calls < MaxCalls

Called(method) ==
    /\ op' = method
    /\ prev' = Paths(songs)
    /\ calls' = calls + 1
    /\ sanitized' = IF method = "sanitize_paths" THEN sanitized + 1 ELSE sanitized
    /\ UNCHANGED << pc, parse_vars_but_songs, filename, final_path, written >>

CallFindCommonPath ==
    /\ Callable
    /\ Called("find_common_path")
    /\ LET r == find_common_path(songs)
       IN IF r.err # "None"
          THEN exc' = Exc(r.err, "find_common_path") /\ ret' = None
          ELSE exc' = exc /\ ret' = Some(r.val)
    /\ UNCHANGED << songs, common_path >>

CallConvertToRelative ==
    /\ Callable
    /\ Called("convert_to_relative")
    /\ LET r == find_common_path(songs)
       IN IF r.err # "None"
          THEN exc' = Exc(r.err, "find_common_path") /\ UNCHANGED << songs, common_path >>
          ELSE /\ exc' = exc
               /\ common_path' = Some(r.val)
               /\ songs' = ConvertedSongs(songs, r.val)
    /\ ret' = None

CallPathsToPosix ==
    /\ Callable
    /\ Called("paths_to_posix")
    /\ songs' = PosixSongs(songs)
    /\ ret' = None
    /\ UNCHANGED << exc, common_path >>

CallSanitizePaths ==
    /\ Callable
    /\ Called("sanitize_paths")
    /\ LET r == find_common_path(songs)
       IN IF r.err # "None"
          THEN exc' = Exc(r.err, "find_common_path") /\ UNCHANGED << songs, common_path >>
          ELSE /\ exc' = exc
               /\ common_path' = Some(r.val)
               /\ songs' = PosixSongs(ConvertedSongs(songs, r.val))
    /\ ret' = None

CallStr ==
    /\ Callable
    /\ Called("__str__")
    /\ ret' = Some(Str(songs))
    /\ UNCHANGED << exc, songs, common_path >>

NextApi ==
    \/ CallFindCommonPath
    \/ CallConvertToRelative
    \/ CallPathsToPosix
    \/ CallSanitizePaths
    \/ CallStr

SpecApi == InitApi /\ [][NextApi]_vars

\* =============================================================== claims

HasMarker(l) == Contains(l, SUMMARY) \/ Contains(l, CONTENT)

\* A step of from_lines that takes one line (line' is that line)
LineStep == pc = "from_lines" /\ pc' \in { "from_lines", "raised" }

CountChar(s, c) == Cardinality({ i \in 1..Len(s) : s[i] = c })

FirstIndex(s, c) == CHOOSE i \in 1..Len(s) : s[i] = c /\ \A j \in 1..(i - 1) : s[j] # c

\* The start of the first occurrence of old in s
FirstOccurrence(s, old) ==
    CHOOSE i \in 1..Len(s) :
        /\ SubSeq(s, i, i + Len(old) - 1) = old
        /\ \A j \in 1..(i - 1) : SubSeq(s, j, j + Len(old) - 1) # old

RemoveFirst(s, old) ==
    IF Contains(s, old)
    THEN SubSeq(s, 1, FirstOccurrence(s, old) - 1)
         \o SubSeq(s, FirstOccurrence(s, old) + Len(old), Len(s))
    ELSE s

RECURSIVE RemoveEvery(_, _)
RemoveEvery(s, old) ==
    IF Contains(s, old)
    THEN SubSeq(s, 1, FirstOccurrence(s, old) - 1)
         \o RemoveEvery(SubSeq(s, FirstOccurrence(s, old) + Len(old), Len(s)), old)
    ELSE s

DotDotSep == << ".", ".", BS >>

\* A song record whose filename is nowhere under the root it was looked up in
Missing(rec) == rec.root # None /\ Matches(rec.root[1], rec.name) = {}

\* ---- C1
\* C1: parsing is all-or-nothing.  Once a song record's filename cannot be
\* found under its active search root, the run has ended in the
\* FileNotFoundError of find_song_path: from_lines has returned no playlist,
\* no M3uPlaylist was built and nothing was written.  A playlist that was
\* returned holds a song for every song record read.
C1_AllOrNothing ==
    /\ (\E i \in DOMAIN seen : Missing(seen[i]))
          => /\ pc = "raised"
             /\ exc = Exc("FileNotFoundError", "find_song_path")
             /\ filename = None
             /\ written = None
    /\ pc \notin { "main", "from_filename", "from_lines", "raised", "return" }
          => Len(songs) = Len(seen)

\* A lookup failed after a song had been resolved.
C1_Witness ==
    /\ pc = "raised"
    /\ exc = Exc("FileNotFoundError", "find_song_path")
    /\ Len(songs) >= 1
    /\ Missing(seen[Len(seen)])

\* ---- C2
\* The first index (from 1) at which two songs differ, or one past the
\* minimum component count when they differ nowhere below it
FirstDisagreement(ps) ==
    LET k == Min({ Len(ps[i]) : i \in DOMAIN ps })
    IN Min({ j \in 1..(k + 1) :
               j = k + 1 \/ \E a, b \in DOMAIN ps : ps[a][j] # ps[b][j] })

LeadingRun(sgs) ==
    LET ps == [i \in DOMAIN sgs |-> Parts(sgs[i].path)]
    IN SubSeq(ps[1], 1, FirstDisagreement(ps) - 1)

CommonOf(run) == IF run = << >> THEN << BS >> ELSE NtJoin(run) \o << BS >>

\* C2: what find_common_path returns for a non-empty list of songs is
\* exactly the longest leading run of components on which all songs agree,
\* joined, with a trailing separator: no component from an index after a
\* disagreement.
C2_LongestLeadingRun ==
    (op = "find_common_path" /\ exc = NoExc /\ songs # << >>)
        => ret = Some(CommonOf(LeadingRun(songs)))

\* ---- C3
\* C3: normalization is idempotent.  A sanitize_paths call on a playlist on
\* which sanitize_paths has completed before completes without error and
\* leaves every song's path as it was.
C3_SanitizeTwice ==
    (op = "sanitize_paths" /\ sanitized >= 2)
        => exc = NoExc /\ Paths(songs) = prev

\* ---- C4
\* C4: for a playlist of one song, the common path is every component of
\* the song's path but the last, with the trailing separator, and after
\* normalization the song's path is its filename.
C4_SingleSong ==
    /\ (op = "find_common_path" /\ exc = NoExc /\ Len(songs) = 1)
          => LET ps == Parts(songs[1].path)
             IN ret = Some(CommonOf(SubSeq(ps, 1, Len(ps) - 1)))
    /\ (op = "sanitize_paths" /\ calls = 1 /\ exc = NoExc /\ Len(songs) = 1)
          => songs[1].path = PathName(prev[1])

\* ---- C5
\* C5: a song record reached before any root-path line ends from_lines in a
\* malformed-playlist error, and no song lookup is ever started with a
\* null search root.
C5_NoLookupWithoutRoot ==
    /\ search_path # CalledWith(None)
    /\ (seen # << >> /\ seen[Len(seen)].root = None)
          => pc = "raised" /\ exc.type = "MalformedPlaylist"

\* ---- C6
\* C6: what is written for a parsed and normalized playlist is the song
\* paths in the order of their records in the input, one per line, separated
\* by single newlines, nothing before and no newline after: as many lines as
\* songs parsed.
C6_Rendered ==
    pc = "done"
        => LET out == written[1]
               ls == Split(out, {"\n"})
           IN /\ Len(ls) = Len(songs)
              /\ Len(songs) = Len(seen)
              /\ CountChar(out, "\n") = Len(songs) - 1
              /\ out[Len(out)] # "\n"
              /\ \A i \in DOMAIN songs :
                    /\ ls[i] = songs[i].path
                    /\ PathName(ls[i]) = seen[i].name
                    /\ songs[i].song_name = seen[i].title

\* Two different songs were written.
C6_Witness ==
    /\ pc = "done"
    /\ Len(songs) = 2
    /\ seen[1].name # seen[2].name
    /\ written = Some(songs[1].path \o << "\n" >> \o songs[2].path)

\* ---- C7
\* C7 as stated: convert_to_relative takes every "..\" out of a song path
\* and then only the first occurrence of common_path; a later occurrence
\* stays.
C7_FirstOccurrenceOnly ==
    (op = "convert_to_relative" /\ exc = NoExc)
        => \A i \in DOMAIN songs :
              songs[i].path = RemoveFirst(RemoveEvery(prev[i], DotDotSep), common_path[1])

\* C7 as amended: convert_to_relative takes every "..\" out of a song path
\* and then every occurrence of common_path.
C7_EveryOccurrence ==
    (op = "convert_to_relative" /\ exc = NoExc)
        => \A i \in DOMAIN songs :
              songs[i].path = RemoveEvery(RemoveEvery(prev[i], DotDotSep), common_path[1])

\* One song held "..\" and another held common_path twice.
C7_Witness ==
    /\ op = "convert_to_relative"
    /\ exc = NoExc
    /\ \E i \in DOMAIN prev : Contains(prev[i], DotDotSep)
    /\ \E i \in DOMAIN prev :
          Contains(RemoveFirst(RemoveEvery(prev[i], DotDotSep), common_path[1]),
                   common_path[1])

\* ---- C8
\* The song record just looked up was looked up under the root in force, and
\* the song it gave is a file below that root.
ResolvedUnderRootInForce ==
    seen' # seen
        => /\ search_path' = CalledWith(current_root_path)
           /\ seen'[Len(seen')].root = current_root_path
           /\ songs' # songs
                 => \E f \in Matches(current_root_path[1], seen'[Len(seen')].name) :
                       songs'[Len(songs')].path = FoundPath(current_root_path[1], f)

\* C8 as stated: in the CONTENT section every line beginning with "-" sets
\* the active search root to the rest of the line, and every song record is
\* resolved against the root of the most recent such line.
C8_EveryDashLine ==
    [][ LineStep
          => /\ (section = "content" /\ StartsWith(line'[1], << "-" >>))
                   => current_root_path' = Some(Tail(line'[1]))
             /\ ResolvedUnderRootInForce ]_vars

\* C8 as amended: in the CONTENT section every line beginning with "-" that
\* holds neither "SUMMARY" nor "CONTENT" sets the active search root to the
\* rest of the line; any other line leaves the root as it is; and every song
\* record is resolved against the root in force.
C8_DashLineWithoutMarker ==
    [][ LineStep
          => /\ IF section = "content" /\ StartsWith(line'[1], << "-" >>)
                   /\ ~ HasMarker(line'[1])
                THEN current_root_path' = Some(Tail(line'[1]))
                ELSE current_root_path' = current_root_path
             /\ ResolvedUnderRootInForce ]_vars

\* Two songs were resolved under two different roots.
C8_Witness ==
    /\ pc = "from_lines"
    /\ Len(songs) = 2
    /\ seen[1].root # seen[2].root
    /\ seen[2].root = current_root_path
    /\ current_root_path # None

\* ---- C9
\* What a summary line with one "=" does to the mapping
SummarySet(l) ==
    LET i == FirstIndex(l, "=")
        key == SubSeq(l, 1, i - 1)
        value == SubSeq(l, i + 1, Len(l))
    IN /\ DOMAIN summary' = DOMAIN summary \cup {key}
       /\ summary'[key] = value
       /\ \A k \in DOMAIN summary \ {key} : summary'[k] = summary[k]

\* C9 as stated: in the SUMMARY section a line with exactly one "=" sets
\* summary[key] = value, over any earlier value, and a line with no "=" or
\* more than one raises nothing and leaves the mapping and the songs alone.
C9_EveryLineWithOneEquals ==
    [][ (LineStep /\ section = "summary")
          => /\ exc' = exc
             /\ songs' = songs
             /\ IF CountChar(line'[1], "=") = 1
                THEN SummarySet(line'[1])
                ELSE summary' = summary ]_vars

\* C9 as amended: the same, for a line with exactly one "=" that holds
\* neither "SUMMARY" nor "CONTENT"; a line that holds one of them leaves the
\* mapping alone too.
C9_LineWithoutMarker ==
    [][ (LineStep /\ section = "summary")
          => /\ exc' = exc
             /\ songs' = songs
             /\ IF CountChar(line'[1], "=") = 1 /\ ~ HasMarker(line'[1])
                THEN SummarySet(line'[1])
                ELSE summary' = summary ]_vars

\* The line just read set Name to q.
C9_Witness ==
    /\ pc = "from_lines"
    /\ section = "summary"
    /\ line = Some(NameKey \o << "=", "q" >>)
    /\ NameKey \in DOMAIN summary
    /\ summary[NameKey] = << "q" >>

\* ---- C10
\* C10: for a non-empty list of songs, each with at least one component,
\* find_common_path returns a string and raises nothing; when the songs share
\* no leading component, the string it returns holds no component.
C10_NeverRaises ==
    (op = "find_common_path" /\ songs # << >>
        /\ \A i \in DOMAIN songs : Parts(songs[i].path) # << >>)
        => /\ exc = NoExc
           /\ ret # None
           /\ LeadingRun(songs) = << >> => Parts(ret[1]) = << >>

====
